---- MODULE Spec2Model ----
(***************************************************************************)
(* A model of pygmt.src.grdlandmask.grdlandmask: one synchronous call is   *)
(* a walk of the program counter through the function body (validation,   *)
(* the GMTTempFile and Session context managers, the library call, the    *)
(* xarray load, the return), with the exception paths unwinding the       *)
(* context managers innermost first.                                      *)
(***************************************************************************)
EXTENDS Integers, Sequences, FiniteSets, TLC

\* How many times grdlandmask is called one after the other.
MaxCalls == 2

----------------------------------------------------------------------------
\* Python values of keyword arguments: None, a str, or a non-str sequence.

None == [k |-> "none", v |-> <<>>]

Str(s) == [k |-> "str", v |-> <<s>>]

List(q) == [k |-> "seq", v |-> q]

\* a local name that has not been assigned yet
Unbound == [k |-> "unbound", v |-> <<>>]

NoErr == "none"

\* the errors the external library reports from call_module or Session
LibErrors == {"GMTCLibError: status 1", "GMTCLibError: status 72"}

\* the errors xarray reports from open_dataarray / load
LoadErrors == {"OSError: cannot read grid"}

RECURSIVE Join(_, _)
\* sep.join(q) for a sequence q of strings
Join(q, sep) ==
    IF q = <<>> THEN ""
    ELSE IF Len(q) = 1 THEN q[1]
    ELSE q[1] \o sep \o Join(Tail(q), sep)

\* "{}".format(value) for a str or None
Format(val) ==
    IF val.k = "none" THEN "None" ELSE Join(val.v, "")

----------------------------------------------------------------------------
\* The decorators of grdlandmask.

\* @use_alias(G="outgrid", ...): short GMT option -> long parameter name
aliases ==
    [G |-> "outgrid", I |-> "spacing", R |-> "region", A |-> "area_thresh",
     D |-> "resolution", E |-> "bordervalues", N |-> "mask_geog",
     V |-> "verbose", r |-> "registration"]

\* every long name given in the call is moved to its short option
use_alias(callargs) ==
    [key \in {a \in DOMAIN aliases : aliases[a] \in DOMAIN callargs}
        |-> callargs[aliases[key]]]

\* @kwargs_to_strings(R="sequence"): a non-str sequence given for R is
\* joined with "/"; any other value (a str, None) is left as it is
kwargs_to_strings(kw) ==
    [key \in DOMAIN kw |->
        IF key = "R" /\ kw[key].k = "seq"
        THEN Str(Join(kw[key].v, "/"))
        ELSE kw[key]]

----------------------------------------------------------------------------
\* build_arg_string (pygmt.helpers, called at line 86): the options in
\* sorted key order (upper case sorts before lower case), each formatted as
\* "-{key}{value}".  A token "-{key}{value}" is kept as the record
\* [opt |-> key, arg |-> value text] and the " ".join of the tokens as the
\* sequence of the tokens.  The helper has had two treatments of a value
\* None: formatting it like any value ("-GNone"), and leaving the option
\* out; dropNone selects the second, and both are admitted.

KeyOrder == <<"A", "D", "E", "G", "I", "N", "R", "V", "r">>

OptionTokens(key, val) ==
    IF val.k = "seq"
    THEN [i \in 1..Len(val.v) |-> [opt |-> key, arg |-> val.v[i]]]
    ELSE << [opt |-> key, arg |-> Format(val)] >>

RECURSIVE BuildFrom(_, _, _)
BuildFrom(kw, dropNone, i) ==
    IF i > Len(KeyOrder) THEN <<>>
    ELSE (IF KeyOrder[i] \in DOMAIN kw /\ ~(dropNone /\ kw[KeyOrder[i]] = None)
          THEN OptionTokens(KeyOrder[i], kw[KeyOrder[i]])
          ELSE <<>>) \o BuildFrom(kw, dropNone, i + 1)

build_arg_string(kw, dropNone) == BuildFrom(kw, dropNone, 1)

----------------------------------------------------------------------------
\* The calls that are made: each parameter is left out or given one of
\* these values.

ParamValues ==
    [outgrid |-> {None, Str("out.nc")},
     spacing |-> {None, Str("1")},
     region |-> {None, Str("g"), List(<<"0", "10", "0", "10">>)},
     area_thresh |-> {Str("100")},
     resolution |-> {Str("c")}]

WellTyped(callargs) == \A n \in DOMAIN callargs : callargs[n] \in ParamValues[n]

CallArgs ==
    {c \in UNION {[names -> UNION {ParamValues[n] : n \in names}] :
                     names \in SUBSET DOMAIN ParamValues} : WellTyped(c)}

\* tempfile.NamedTemporaryFile picks a fresh name with the given suffix
TempName(n) == "pygmt-" \o ToString(n) \o ".nc"

----------------------------------------------------------------------------
VARIABLES
    pc,           \* position in the body of grdlandmask
    calls,        \* number of calls of grdlandmask started so far
    args,         \* the keyword arguments of the current call
    kwargs,       \* the dict kwargs of the body
    tmpName,      \* tmpfile.name, "" before the with statement
    files,        \* names of the files that exist on disk
    sessionOpen,  \* a Session created by this call is open
    outgrid,      \* the local outgrid
    arg_str,      \* the local arg_str (sequence of tokens)
    libArgs,      \* the argument strings call_module received in this call
    fileOpen,     \* xr.open_dataarray has the file open
    opened,       \* files opened for reading in this call
    loaded,       \* the array has been read into memory
    result,       \* the local result: "unbound", "None" or "DataArray"
    returned,     \* what the caller got: "nothing", "None" or "DataArray"
    raised,       \* the exception in flight / delivered to the caller
    libError,     \* the error call_module reported in this call
    trace         \* the steps of this call, in order

vars == <<pc, calls, args, kwargs, tmpName, files, sessionOpen, outgrid,
          arg_str, libArgs, fileOpen, opened, loaded, result, returned,
          raised, libError, trace>>

Init ==
    /\ pc = "idle"
    /\ calls = 0
    /\ args = <<>>
    /\ kwargs = <<>>
    /\ tmpName = ""
    /\ files = {}
    /\ sessionOpen = FALSE
    /\ outgrid = Unbound
    /\ arg_str = <<>>
    /\ libArgs = <<>>
    /\ fileOpen = FALSE
    /\ opened = {}
    /\ loaded = FALSE
    /\ result = "unbound"
    /\ returned = "nothing"
    /\ raised = NoErr
    /\ libError = NoErr
    /\ trace = <<>>

----------------------------------------------------------------------------
\* grdlandmask(**kwargs) is called: the decorators rewrite the keyword
\* arguments and the body starts.
Call(callargs) ==
    /\ pc \in {"idle", "done"}
    /\ calls < MaxCalls
    /\ calls' = calls + 1
    /\ args' = callargs
    /\ kwargs' = kwargs_to_strings(use_alias(callargs))
    /\ pc' = "validate"
    /\ tmpName' = ""
    /\ outgrid' = Unbound
    /\ arg_str' = <<>>
    /\ libArgs' = <<>>
    /\ opened' = {}
    /\ loaded' = FALSE
    /\ result' = "unbound"
    /\ returned' = "nothing"
    /\ raised' = NoErr
    /\ libError' = NoErr
    /\ trace' = <<>>
    /\ UNCHANGED <<files, sessionOpen, fileOpen>>

\* a slip of MissingRequired: "and" in place of "or"
MissingRequired_and(kw) == "I" \notin DOMAIN kw /\ "R" \notin DOMAIN kw

\* "I" not in kwargs.keys() or "R" not in kwargs.keys()
MissingRequired(kw) == "I" \notin DOMAIN kw \/ "R" \notin DOMAIN kw

\* a slip of Validate: the check made inside the with statement of the
\* temporary file
Validate_inside ==
    /\ pc = "validate"
    /\ trace' = Append(trace, "validate")
    /\ tmpName' = TempName(calls)
    /\ files' = files \cup {TempName(calls)}
    /\ IF MissingRequired(kwargs)
       THEN /\ raised' = "GMTInvalidInput"
            /\ pc' = "exit_tmp"
       ELSE /\ raised' = raised
            /\ pc' = "enter_session"
    /\ UNCHANGED <<calls, args, kwargs, sessionOpen, outgrid, arg_str,
                   libArgs, fileOpen, opened, loaded, result, returned,
                   libError>>

\* lines 78-79: raise GMTInvalidInput when a required option is missing
Validate ==
    /\ pc = "validate"
    /\ trace' = Append(trace, "validate")
    /\ IF MissingRequired(kwargs)
       THEN /\ raised' = "GMTInvalidInput"
            /\ pc' = "done"
       ELSE /\ raised' = raised
            /\ pc' = "enter_tmp"
    /\ UNCHANGED <<calls, args, kwargs, tmpName, files, sessionOpen, outgrid,
                   arg_str, libArgs, fileOpen, opened, loaded, result,
                   returned, libError>>

\* line 81: with GMTTempFile(suffix=".nc") as tmpfile: the file is created
EnterTempFile ==
    /\ pc = "enter_tmp"
    /\ tmpName' = TempName(calls)
    /\ files' = files \cup {TempName(calls)}
    /\ trace' = Append(trace, "tmpfile")
    /\ pc' = "enter_session"
    /\ UNCHANGED <<calls, args, kwargs, sessionOpen, outgrid, arg_str,
                   libArgs, fileOpen, opened, loaded, result, returned,
                   raised, libError>>

\* line 82: with Session() as lib: the session is created, or the library
\* refuses and its error leaves the with statement of the temporary file
EnterSession ==
    /\ pc = "enter_session"
    /\ \/ /\ sessionOpen' = TRUE
          /\ trace' = Append(trace, "session")
          /\ pc' = "set_outgrid"
          /\ UNCHANGED raised
       \/ /\ \E e \in LibErrors : raised' = e
          /\ pc' = "exit_tmp"
          /\ UNCHANGED <<sessionOpen, trace>>
    /\ UNCHANGED <<calls, args, kwargs, tmpName, files, outgrid, arg_str,
                   libArgs, fileOpen, opened, loaded, result, returned,
                   libError>>

\* a slip of WithOutgrid: the update made whether or not G is given
WithOutgrid_always(kw, name) ==
    [key \in DOMAIN kw \cup {"G"} |-> IF key = "G" THEN Str(name) ELSE kw[key]]

\* lines 83-84: kwargs after the update with the temporary file's name
WithOutgrid(kw, name) ==
    IF "G" \notin DOMAIN kw
    THEN [key \in DOMAIN kw \cup {"G"} |->
             IF key = "G" THEN Str(name) ELSE kw[key]]
    ELSE kw

\* lines 83-85: if "G" not in kwargs: kwargs.update(G=tmpfile.name);
\* outgrid = kwargs["G"]
SetOutgrid ==
    /\ pc = "set_outgrid"
    /\ kwargs' = WithOutgrid(kwargs, tmpName)
    /\ outgrid' = kwargs'["G"]
    /\ pc' = "build"
    /\ UNCHANGED <<calls, args, tmpName, files, sessionOpen, arg_str,
                   libArgs, fileOpen, opened, loaded, result, returned,
                   raised, libError, trace>>

\* line 86: arg_str = build_arg_string(kwargs)
BuildArgString ==
    /\ pc = "build"
    /\ \E dropNone \in BOOLEAN : arg_str' = build_arg_string(kwargs, dropNone)
    /\ trace' = Append(trace, "build")
    /\ pc' = "call_module"
    /\ UNCHANGED <<calls, args, kwargs, tmpName, files, sessionOpen, outgrid,
                   libArgs, fileOpen, opened, loaded, result, returned,
                   raised, libError>>

\* the file a -G token of an argument string makes the library write
GridTargets(tokens) ==
    {tokens[i].arg : i \in {j \in 1..Len(tokens) : tokens[j].opt = "G"}}

\* line 87: lib.call_module("grdlandmask", arg_str): the library writes the
\* grid to the file -G names, or reports an error, which is raised
CallModule ==
    /\ pc = "call_module"
    /\ libArgs' = Append(libArgs, arg_str)
    /\ trace' = Append(trace, "call")
    /\ \/ /\ files' = files \cup GridTargets(arg_str)
          /\ UNCHANGED <<raised, libError>>
       \/ /\ \E e \in LibErrors : raised' = e /\ libError' = e
          /\ UNCHANGED files
    /\ pc' = "exit_session"
    /\ UNCHANGED <<calls, args, kwargs, tmpName, sessionOpen, outgrid,
                   arg_str, fileOpen, opened, loaded, result, returned>>

\* a slip of ExitSession: an __exit__ that swallows the exception
ExitSession_suppress ==
    /\ pc = "exit_session"
    /\ sessionOpen' = FALSE
    /\ trace' = Append(trace, "session_closed")
    /\ raised' = NoErr
    /\ pc' = "branch"
    /\ UNCHANGED <<calls, args, kwargs, tmpName, files, outgrid, arg_str,
                   libArgs, fileOpen, opened, loaded, result, returned,
                   libError>>

\* line 82, leaving the with statement: Session.__exit__ destroys the
\* session, on the normal path and on the way out of an exception
ExitSession ==
    /\ pc = "exit_session"
    /\ sessionOpen' = FALSE
    /\ trace' = Append(trace, "session_closed")
    /\ pc' = IF raised = NoErr THEN "branch" ELSE "exit_tmp"
    /\ UNCHANGED <<calls, args, kwargs, tmpName, files, outgrid, arg_str,
                   libArgs, fileOpen, opened, loaded, result, returned,
                   raised, libError>>

\* a slip of ToTempFile: comparing with the tmpfile object, never equal
ToTempFile_never(og, name) == FALSE

\* line 89: outgrid == tmpfile.name
ToTempFile(og, name) == og = Str(name)

\* lines 89, 93-94: choose between loading the grid and result = None
Branch ==
    /\ pc = "branch"
    /\ IF ToTempFile(outgrid, tmpName)
       THEN /\ pc' = "open"
            /\ UNCHANGED result
       ELSE /\ result' = "None"
            /\ pc' = "return"
    /\ UNCHANGED <<calls, args, kwargs, tmpName, files, sessionOpen, outgrid,
                   arg_str, libArgs, fileOpen, opened, loaded, returned,
                   raised, libError, trace>>

\* line 90: with xr.open_dataarray(outgrid) as dataarray: the file is
\* opened for reading, or xarray raises
OpenDataArray ==
    /\ pc = "open"
    /\ \/ /\ Format(outgrid) \in files
          /\ fileOpen' = TRUE
          /\ opened' = opened \cup {Format(outgrid)}
          /\ pc' = "load"
          /\ UNCHANGED raised
       \/ /\ \E e \in LoadErrors : raised' = e
          /\ pc' = "exit_tmp"
          /\ UNCHANGED <<fileOpen, opened>>
    /\ UNCHANGED <<calls, args, kwargs, tmpName, files, sessionOpen, outgrid,
                   arg_str, libArgs, loaded, result, returned, libError,
                   trace>>

\* a slip of Load: the lazy array is returned without .load()
Load_lazy ==
    /\ pc = "load"
    /\ result' = "DataArray"
    /\ trace' = Append(trace, "load")
    /\ pc' = "close"
    /\ UNCHANGED <<calls, args, kwargs, tmpName, files, sessionOpen, outgrid,
                   arg_str, libArgs, fileOpen, opened, loaded, returned,
                   raised, libError>>

\* lines 91-92: result = dataarray.load(); _ = result.gmt: the values are
\* read from the open file into memory, or the read raises
Load ==
    /\ pc = "load"
    /\ \/ /\ Format(outgrid) \in files
          /\ loaded' = TRUE
          /\ result' = "DataArray"
          /\ trace' = Append(trace, "load")
          /\ UNCHANGED raised
       \/ /\ \E e \in LoadErrors : raised' = e
          /\ UNCHANGED <<loaded, result, trace>>
    /\ pc' = "close"
    /\ UNCHANGED <<calls, args, kwargs, tmpName, files, sessionOpen, outgrid,
                   arg_str, libArgs, fileOpen, opened, returned, libError>>

\* line 90, leaving the with statement: the opened file is closed
CloseDataArray ==
    /\ pc = "close"
    /\ fileOpen' = FALSE
    /\ trace' = Append(trace, "file_closed")
    /\ pc' = IF raised = NoErr THEN "return" ELSE "exit_tmp"
    /\ UNCHANGED <<calls, args, kwargs, tmpName, files, sessionOpen, outgrid,
                   arg_str, libArgs, opened, loaded, result, returned,
                   raised, libError>>

\* line 96: return result (the value is fixed before the with statement
\* of the temporary file is left)
Return ==
    /\ pc = "return"
    /\ trace' = Append(trace, "return")
    /\ pc' = "exit_tmp"
    /\ UNCHANGED <<calls, args, kwargs, tmpName, files, sessionOpen, outgrid,
                   arg_str, libArgs, fileOpen, opened, loaded, result,
                   returned, raised, libError>>

\* a slip of ExitTempFile: the file removed by hand after the body, so
\* not when the body raised
ExitTempFile_normal ==
    /\ pc = "exit_tmp"
    /\ files' = IF raised = NoErr THEN files \ {tmpName} ELSE files
    /\ trace' = Append(trace, "tmpfile_removed")
    /\ returned' = IF raised = NoErr THEN result ELSE "nothing"
    /\ pc' = "done"
    /\ UNCHANGED <<calls, args, kwargs, tmpName, sessionOpen, outgrid,
                   arg_str, libArgs, fileOpen, opened, loaded, result,
                   raised, libError>>

\* line 81, leaving the with statement: GMTTempFile.__exit__ removes the
\* file; then the caller gets the value, or the exception in flight
ExitTempFile ==
    /\ pc = "exit_tmp"
    /\ files' = files \ {tmpName}
    /\ trace' = Append(trace, "tmpfile_removed")
    /\ returned' = IF raised = NoErr THEN result ELSE "nothing"
    /\ pc' = "done"
    /\ UNCHANGED <<calls, args, kwargs, tmpName, sessionOpen, outgrid,
                   arg_str, libArgs, fileOpen, opened, loaded, result,
                   raised, libError>>

Next ==
    \/ \E callargs \in CallArgs : Call(callargs)
    \/ Validate
    \/ EnterTempFile
    \/ EnterSession
    \/ SetOutgrid
    \/ BuildArgString
    \/ CallModule
    \/ ExitSession
    \/ Branch
    \/ OpenDataArray
    \/ Load
    \/ CloseDataArray
    \/ Return
    \/ ExitTempFile

Spec == Init /\ [][Next]_vars

----------------------------------------------------------------------------
\* Vocabulary of the properties.

\* the parameter was left out of the call
Absent(name) == name \notin DOMAIN args

\* the parameter was given as a str or a sequence, not left out or None
Specified(name) == name \in DOMAIN args /\ args[name] # None

\* the text a given value has in an argument string
TextOf(val) ==
    IF val.k = "seq" THEN Join(val.v, "/")
    ELSE IF val.k = "none" THEN "None" ELSE val.v[1]

\* the args of the tokens of an argument string that carry option key
ArgsOf(tokens, key) ==
    {tokens[i].arg : i \in {j \in 1..Len(tokens) : tokens[j].opt = key}}

Options(tokens) == {tokens[i].opt : i \in 1..Len(tokens)}

Events == {trace[i] : i \in 1..Len(trace)}

IsPrefix(p, q) == Len(p) <= Len(q) /\ SubSeq(q, 1, Len(p)) = p

IsStep(e) == e \in {"validate", "session", "build", "call", "load", "return"}

Steps == SelectSeq(trace, IsStep)

Succeeded == pc = "done" /\ raised = NoErr

\* the temporary files of all calls so far
TempFiles == {TempName(n) : n \in 1..calls}

\* C1: a call that leaves out spacing, region or both ends with
\* GMTInvalidInput, whatever else was given.
C1_MissingRaisesInvalidInput ==
    (pc = "done" /\ (Absent("spacing") \/ Absent("region")))
        => raised = "GMTInvalidInput" /\ returned = "nothing"

C1_Witness ==
    /\ pc = "done"
    /\ Absent("spacing") /\ ~Absent("region") /\ ~Absent("outgrid")
    /\ raised = "GMTInvalidInput"

\* C2: after a successful call the caller has a DataArray exactly when
\* outgrid was not set (left out, or given as None as the documented type
\* "str or None" allows), and otherwise has None and the grid is in the
\* file outgrid names.
C2_ReturnDependsOnOutgrid ==
    Succeeded =>
        IF ~Specified("outgrid")
        THEN returned = "DataArray"
        ELSE returned = "None" /\ TextOf(args["outgrid"]) \in files

\* C3: the steps validate, session, build, call, load, return happen in
\* this order and at most once each; a successful call has done them all,
\* the load exactly when outgrid was left out; the library is called once
\* and only inside the open session.
C3_FixedOrder ==
    /\ \/ IsPrefix(Steps, <<"validate", "session", "build", "call", "load", "return">>)
       \/ IsPrefix(Steps, <<"validate", "session", "build", "call", "return">>)
    /\ Succeeded =>
          Steps = IF Absent("outgrid")
                  THEN <<"validate", "session", "build", "call", "load", "return">>
                  ELSE <<"validate", "session", "build", "call", "return">>
    /\ Len(libArgs) <= 1
    /\ pc = "call_module" => sessionOpen
    /\ "call" \in Events /\ pc = "exit_session" => sessionOpen

C3_Witness ==
    /\ Succeeded
    /\ Absent("outgrid")
    /\ Steps = <<"validate", "session", "build", "call", "load", "return">>

\* C4: when a call has ended, in whichever way, no temporary file of it
\* exists and no session or opened file of it is left open.
C4_ReleasedOnEveryExit ==
    pc = "done" =>
        /\ TempFiles \cap files = {}
        /\ ~sessionOpen
        /\ ~fileOpen

C4_Witness ==
    /\ pc = "done"
    /\ raised \in LoadErrors
    /\ "tmpfile" \in Events

\* C5: a call that fails validation does nothing but raise: no temporary
\* file, no session, no argument string, no library call, no file read.
C5_FailedValidationHasNoEffect ==
    (pc # "idle" /\ (Absent("spacing") \/ Absent("region"))) =>
        /\ tmpName = ""
        /\ TempName(calls) \notin files
        /\ ~sessionOpen
        /\ arg_str = <<>>
        /\ libArgs = <<>>
        /\ opened = {}
        /\ Events \subseteq {"validate"}

C5_Witness ==
    /\ pc = "done"
    /\ Absent("region")
    /\ trace = <<"validate">>

C7_LibraryErrorPropagates ==
    libError # NoErr =>
        /\ raised = libError
        /\ result = "unbound" /\ returned = "nothing"
        /\ opened = {} /\ ~loaded /\ ~fileOpen
        /\ pc \in {"exit_session", "exit_tmp", "done"}
        /\ pc \in {"exit_tmp", "done"} => ~sessionOpen
        /\ pc = "done" => tmpName \notin files

C7_Witness ==
    /\ pc = "done"
    /\ libError \in LibErrors
    /\ raised = libError

\* C8: every argument string handed to call_module has a G token that
\* names a file: the temporary file or the name the caller gave.
C8_CallNamesOutputFile ==
    \A i \in 1..Len(libArgs) :
        /\ ArgsOf(libArgs[i], "G") # {}
        /\ ArgsOf(libArgs[i], "G") \subseteq
              {tmpName} \cup {TextOf(args[n]) : n \in {m \in {"outgrid"} : Specified(m)}}

\* C9: when outgrid was left out, the temporary file exists from before
\* the library call until the array is loaded and the file closed; the
\* file is opened only after the session is closed; what is returned is
\* the loaded array.
C9_TempFileOutlivesLoad ==
    /\ pc \in {"enter_session", "set_outgrid", "build", "call_module",
               "exit_session", "branch", "open", "load", "close", "return",
               "exit_tmp"} => tmpName \in files
    /\ fileOpen => ~sessionOpen /\ tmpName \in files
    /\ opened \subseteq {tmpName}
    /\ returned = "DataArray" => loaded /\ ~fileOpen /\ Absent("outgrid")
    /\ (Succeeded /\ Absent("outgrid")) =>
          /\ returned = "DataArray"
          /\ trace = <<"validate", "tmpfile", "session", "build", "call",
                       "session_closed", "load", "file_closed", "return",
                       "tmpfile_removed">>

C9_Witness ==
    /\ Succeeded
    /\ Absent("outgrid")
    /\ returned = "DataArray"
    /\ tmpName \notin files

\* C10: call_module is reached only by calls whose caller specified both
\* region and spacing, and the argument string then carries both as given.
C10_CalledOnlyWithRegionAndSpacing ==
    libArgs # <<>> =>
        /\ Specified("region") /\ Specified("spacing")
        /\ \A i \in 1..Len(libArgs) :
              /\ ArgsOf(libArgs[i], "R") = {TextOf(args["region"])}
              /\ ArgsOf(libArgs[i], "I") = {TextOf(args["spacing"])}

====
